---- MODULE Spec2Model ----
(***************************************************************************)
(* A model of earpeace: the lookahead limiter (audio_limiter.rs), the      *)
(* loudness normalizer with its ceiling clamp (audio_normalizer.rs), the   *)
(* soundboard batch that replaces remote sounds (discord.rs) and the free  *)
(* functions of dsp.rs.                                                    *)
(*                                                                         *)
(* Numbers.  Linear amplitudes and gains (f32/f64 in the source) are       *)
(* fixed-point integers with ONE units to 1.0, every arithmetic result     *)
(* rounded to the nearest unit as IEEE arithmetic rounds to the nearest    *)
(* representable value.  Decibel and LUFS values are integers in           *)
(* hundredths of a dB (-0.1 dB is -10), times are in milliseconds.         *)
(***************************************************************************)
EXTENDS Integers, Sequences, FiniteSets, TLC

VARIABLES
    \* ---- Limiter (audio_limiter.rs)
    lim_pc,             \* position: "start", "rejected", "constructed",
                        \*   "first_pass", "second_pass", "done", "panicked"
    lim_args,           \* the arguments Limiter::new was called with
    limiter,            \* the constructed Limiter (its three fields), or NoValue
    lim_error,          \* the error Limiter::new returned, or NoValue
    samples,            \* process: the input buffer
    sample_rate,        \* process: the sample rate
    gain_reduction,     \* process: the scheduled reduction per index
    current_reduction,  \* process: the smoothed reduction
    output,             \* process: the output buffer
    applied,            \* the current_reduction each output sample was multiplied by
    lim_i,              \* the loop index of the pass in progress (1-based)
    \* ---- AudioNormalizer (audio_normalizer.rs)
    norm_pc,            \* position: "start", "rejected", "constructed", "prepared",
                        \*   "decoded", "measured", "gained", "written", "ok", "failed"
    norm_args,          \* the arguments AudioNormalizer::new was called with
    normalizer,         \* the constructed AudioNormalizer, or NoValue
    norm_error,         \* the error of new or of normalize_file, or NoValue
    files,              \* the file system: path -> content
    files0,             \* the file system when normalize_file was called
    input_path,         \* normalize_file: its argument
    working_path,       \* normalize_file: the file that is decoded
    decoded,            \* normalize_file: the decoded samples
    loudness,           \* what the loudness meter returned: [ok, value], or NoValue
    gain,               \* the gain measure_loudness returned: [value], or NoValue
    final_gain,         \* apply_gain: the gain after the ceiling clamp: [value], or NoValue
    normalized_samples, \* apply_gain: its result (<<>> before it has run)
    stages,             \* the stages normalize_file has run, in order
    \* ---- DiscordClient (discord.rs) and the remote soundboard
    store,              \* the guild's soundboard: a sequence of sounds
    store0,             \* the soundboard when the normalize command began
    next_id,            \* the id the soundboard gives the next sound
    requests,           \* the create and delete requests issued, in order
    d_pc,               \* per run: "idle", "download", "convert", "process",
                        \*   "list", "create", "delete", "done", "aborted"
    d_sounds,           \* per run: the sounds process_guild_sounds was given
    d_index,            \* per run: the position of the loop in d_sounds
    d_existing,         \* per run: existing_sound of process_and_upload_sound
    d_attempted,        \* per run: the positions whose processing has begun
    \* ---- the free functions of dsp.rs and the dynamics stages, called alone
    dsp_pc,             \* position: "start", "returned", "panicked"
    dsp_call,           \* the call: the function and its arguments, or NoValue
    dsp_result,         \* what the call returned, or NoValue
    \* process_directory of the earpeace binary
    dir_pc,             \* position: "start", "scanning", "done", "failed"
    dir_files0,         \* the files of the directory when read_dir opened it
    dir_files,          \* the files of the directory now
    dir_seen,           \* the entries read_dir has returned
    dir_processed       \* the inputs given to normalize_file, in order

limVars == <<lim_pc, lim_args, limiter, lim_error, samples, sample_rate,
             gain_reduction, current_reduction, output, applied, lim_i>>

normVars == <<norm_pc, norm_args, normalizer, norm_error, files, files0,
              input_path, working_path, decoded, loudness, gain, final_gain,
              normalized_samples, stages>>

discVars == <<store, store0, next_id, requests, d_pc, d_sounds, d_index,
              d_existing, d_attempted>>

dspVars == <<dsp_pc, dsp_call, dsp_result>>

dirVars == <<dir_pc, dir_files0, dir_files, dir_seen, dir_processed>>

vars == <<limVars, normVars, discVars, dspVars, dirVars>>

NoValue == [none |-> TRUE]

(***************************************************************************)
(* Bounds of the model.                                                    *)
(***************************************************************************)
MaxLen == 3

\* 1.0 in fixed point.
ONE == 1000

\* The tolerance of the numerical claims: one unit of the fixed point.
Eps == ONE \div 1000

(***************************************************************************)
(* Arithmetic helpers.                                                     *)
(***************************************************************************)
Abs(x) == IF x < 0 THEN -x ELSE x

Min(a, b) == IF b < a THEN b ELSE a

\* a / b rounded to the nearest integer (b > 0), halves upward.
RoundDiv(a, b) == (2 * a + b) \div (2 * b)

\* The product of two fixed-point numbers.
FMul(a, b) == RoundDiv(a * b, ONE)

\* The quotient of two fixed-point numbers (b > 0).
FDiv(a, b) == RoundDiv(a * ONE, b)

RECURSIVE Pow10(_)
Pow10(n) == IF n = 0 THEN 1 ELSE 10 * Pow10(n - 1)

\* 10^(k/20) for k = 0..19 whole dB, in fixed point.
WholeDb == <<1000, 1122, 1259, 1413, 1585, 1778, 1995, 2239, 2512, 2818,
             3162, 3548, 3981, 4467, 5012, 5623, 6310, 7079, 7943, 8913>>

\* 10^(k/200) for k = 0..9 tenths of a dB, in fixed point.
TenthDb == <<1000, 1012, 1023, 1035, 1047, 1059, 1072, 1084, 1096, 1109>>

\* db_to_linear(db) = 10^(db/20), db in hundredths of a dB: the decade, the
\* whole dB and the tenth of a dB multiply; the hundredths interpolate.
db_to_linear(db) ==
    LET decade == db \div 2000
        r      == db % 2000
        whole  == r \div 100
        tenth  == (r % 100) \div 10
        hund   == r % 10
        base   == (WholeDb[whole + 1] * TenthDb[tenth + 1]) \div ONE
        mant   == base + (base * 12 * hund) \div 10000
    IN  IF decade >= 0 THEN mant * Pow10(decade)
        ELSE RoundDiv(mant, Pow10(-decade))

\* exp(-1/n) in fixed point by its series; exp(-1/0) = exp(-inf) = 0.
RECURSIVE ExpSeries(_, _, _)
ExpSeries(n, k, term) ==
    IF term = 0 \/ k > 8 THEN 0
    ELSE term - ExpSeries(n, k + 1, RoundDiv(term, k * n))

ExpNegInv(n) == IF n = 0 THEN 0 ELSE ExpSeries(n, 1, ONE)

\* Mutant: the product is rounded to the nearest sample.
MsToSamples_Rounded(ms, rate) == RoundDiv(ms * rate, 1000)

\* f64 -> usize of a non-negative product ms * 0.001 * rate: truncation.
MsToSamples(ms, rate) == (ms * rate) \div 1000

SeqMax(s) == IF s = <<>> THEN 0
             ELSE CHOOSE m \in {Abs(s[k]) : k \in 1..Len(s)} :
                      \A k \in 1..Len(s) : Abs(s[k]) <= m

\* All sequences over S of length 0..n.
RECURSIVE SeqsUpTo(_, _)
SeqsUpTo(S, n) ==
    IF n = 0 THEN {<<>>}
    ELSE LET shorter == SeqsUpTo(S, n - 1)
         IN  shorter \cup {Append(s, x) : s \in {t \in shorter : Len(t) = n - 1}, x \in S}

(***************************************************************************)
(* Inputs.                                                                 *)
(***************************************************************************)
\* Samples: silence, a quiet sample, a loud negative sample, full scale.
SampleValues == {0, 300, -800, 1000}

Buffers == SeqsUpTo(SampleValues, MaxLen)

\* Hz.  400 Hz makes a lookahead of 1 or 2 ms shorter than one sample.
SampleRates == {400, 1000, 1500}

\* Limiter::new arguments, valid and invalid.  The lowest threshold is so
\* low that its linear value underflows to 0 in this fixed point, as
\* 10^(db/20) does in f64 below about -6480 dB.
ThresholdArgs == {-8000, -600, -100, -10, -5, 0, 100}
ReleaseArgs == {-5, 0, 1, 50}
LookaheadArgs == {0, 1, 2}

(***************************************************************************)
(* Limiter::new                                                            *)
(***************************************************************************)
MAX_THRESHOLD == -10

\* Mutant: the lookahead check is missing.
LimiterNewError_NoLookaheadCheck(threshold, release_time, lookahead_ms) ==
    IF threshold >= 0 THEN [msg |-> "Threshold must be negative"]
    ELSE IF threshold > -10 THEN [msg |-> "Threshold exceeds maximum"]
    ELSE IF release_time <= 0 THEN [msg |-> "Release time must be positive"]
    ELSE NoValue

\* The error Limiter::new returns for its arguments, or NoValue.
LimiterNewError(threshold, release_time, lookahead_ms) ==
    IF threshold >= 0 THEN [msg |-> "Threshold must be negative"]
    ELSE IF threshold > MAX_THRESHOLD THEN [msg |-> "Threshold exceeds maximum"]
    ELSE IF release_time <= 0 THEN [msg |-> "Release time must be positive"]
    ELSE IF lookahead_ms = 0 THEN [msg |-> "Lookahead must be greater than 0ms"]
    ELSE NoValue

LimiterNew(threshold, release_time, lookahead_ms) ==
    /\ lim_pc = "start"
    /\ lim_args' = [threshold |-> threshold, release_time |-> release_time,
                    lookahead_ms |-> lookahead_ms]
    /\ LET err == LimiterNewError(threshold, release_time, lookahead_ms)
       IN  IF err = NoValue
           THEN /\ limiter' = [threshold |-> threshold,
                               release_time |-> release_time,
                               lookahead |-> lookahead_ms]
                /\ lim_error' = NoValue
                /\ lim_pc' = "constructed"
           ELSE /\ limiter' = NoValue
                /\ lim_error' = err
                /\ lim_pc' = "rejected"
    /\ UNCHANGED <<samples, sample_rate, gain_reduction, current_reduction,
                   output, applied, lim_i>>
    /\ UNCHANGED <<normVars, discVars, dspVars, dirVars>>

(***************************************************************************)
(* Limiter::process                                                        *)
(***************************************************************************)
\* Mutant: the threshold is converted as a power ratio, 10^(db/10).
threshold_linear_AsPower == db_to_linear(2 * limiter.threshold)

threshold_linear == db_to_linear(limiter.threshold)

release_samples == MsToSamples(limiter.release_time, sample_rate)

lookahead_samples == MsToSamples(limiter.lookahead, sample_rate)

release_coeff == ExpNegInv(release_samples)

\* Lines 71-81: the buffers are allocated, the first pass starts.
ProcessBegin(buf, rate) ==
    /\ lim_pc = "constructed"
    /\ samples' = buf
    /\ sample_rate' = rate
    /\ output' = [k \in 1..Len(buf) |-> 0]
    /\ gain_reduction' = [k \in 1..Len(buf) |-> ONE]
    /\ applied' = <<>>
    /\ current_reduction' = ONE
    /\ lim_i' = 1
    /\ lim_pc' = "first_pass"
    /\ UNCHANGED <<lim_args, limiter, lim_error>>
    /\ UNCHANGED <<normVars, discVars, dspVars, dirVars>>

\* Mutant: the window is not cut at the end of the buffer.
ReductionWindow_Unguarded(i, n, len) == i..(i + n - 1)

\* The window of indices an overshoot at index i lowers: i + j for
\* j in 0..lookahead_samples-1, inside the buffer (`if i + j < len`).
ReductionWindow(i, n, len) == {k \in 1..len : i <= k /\ k < i + n}

\* Mutant: the reduction of a later overshoot replaces the scheduled one.
ReductionStep_Overwrites(gr, x, i, thr, n) ==
    LET sample_abs == Abs(x[i])
    IN  IF sample_abs > thr
        THEN [k \in 1..Len(gr) |->
                 IF k \in ReductionWindow(i, n, Len(gr))
                 THEN FDiv(thr, sample_abs) ELSE gr[k]]
        ELSE gr

\* One iteration of the first pass on index i.
ReductionStep(gr, x, i, thr, n) ==
    LET sample_abs == Abs(x[i])
    IN  IF sample_abs > thr
        THEN LET reduction == FDiv(thr, sample_abs)
             IN  [k \in 1..Len(gr) |->
                    IF k \in ReductionWindow(i, n, Len(gr))
                    THEN Min(gr[k], reduction) ELSE gr[k]]
        ELSE gr

\* gain_reduction[i + j] panics when i + j is not an index of the vector.
IndexPanics(gr, x, i, thr, n) ==
    /\ Abs(x[i]) > thr
    /\ ~(ReductionWindow(i, n, Len(gr)) \subseteq DOMAIN gr)

FirstPassStep ==
    /\ lim_pc = "first_pass"
    /\ lim_i <= Len(samples)
    /\ IF IndexPanics(gain_reduction, samples, lim_i, threshold_linear,
                      lookahead_samples)
       THEN /\ lim_pc' = "panicked"
            /\ UNCHANGED <<gain_reduction, lim_i>>
       ELSE /\ gain_reduction' = ReductionStep(gain_reduction, samples, lim_i,
                                               threshold_linear, lookahead_samples)
            /\ lim_i' = lim_i + 1
            /\ UNCHANGED lim_pc
    /\ UNCHANGED <<lim_args, limiter, lim_error, samples, sample_rate,
                   current_reduction, output, applied>>
    /\ UNCHANGED <<normVars, discVars, dspVars, dirVars>>

\* Lines 97-99: the first pass is over, the second starts.
SecondPassBegin ==
    /\ lim_pc = "first_pass"
    /\ lim_i > Len(samples)
    /\ current_reduction' = ONE
    /\ lim_i' = 1
    /\ lim_pc' = "second_pass"
    /\ UNCHANGED <<lim_args, limiter, lim_error, samples, sample_rate,
                   gain_reduction, output, applied>>
    /\ UNCHANGED <<normVars, discVars, dspVars, dirVars>>

\* Mutant: the release term has the wrong sign and overshoots the target.
SmoothStep_WrongSign(target_reduction, current, coeff) ==
    IF target_reduction < current
    THEN target_reduction
    ELSE target_reduction - FMul(current - target_reduction, coeff)

\* Mutant: the attack is smoothed like the release.
SmoothStep_SmoothAttack(target_reduction, current, coeff) ==
    target_reduction + FMul(current - target_reduction, coeff)

\* The smoothed reduction after one sample with scheduled reduction target.
SmoothStep(target_reduction, current, coeff) ==
    IF target_reduction < current
    THEN target_reduction
    ELSE target_reduction + FMul(current - target_reduction, coeff)

SecondPassStep ==
    /\ lim_pc = "second_pass"
    /\ lim_i <= Len(samples)
    /\ LET next == SmoothStep(gain_reduction[lim_i], current_reduction, release_coeff)
       IN  /\ current_reduction' = next
           /\ output' = [output EXCEPT ![lim_i] = FMul(samples[lim_i], next)]
           /\ applied' = Append(applied, next)
    /\ lim_i' = lim_i + 1
    /\ UNCHANGED <<lim_pc, lim_args, limiter, lim_error, samples, sample_rate,
                   gain_reduction>>
    /\ UNCHANGED <<normVars, discVars, dspVars, dirVars>>

\* Line 112: Ok(output).
ProcessReturn ==
    /\ lim_pc = "second_pass"
    /\ lim_i > Len(samples)
    /\ lim_pc' = "done"
    /\ UNCHANGED <<lim_args, limiter, lim_error, samples, sample_rate,
                   gain_reduction, current_reduction, output, applied, lim_i>>
    /\ UNCHANGED <<normVars, discVars, dspVars, dirVars>>

\* The first pass from index i on: the scheduled reductions.
RECURSIVE FirstPass(_, _, _, _, _)
FirstPass(gr, x, i, thr, n) ==
    IF i > Len(x) THEN gr
    ELSE FirstPass(ReductionStep(gr, x, i, thr, n), x, i + 1, thr, n)

\* The second pass from index i on: the output samples.
RECURSIVE SecondPass(_, _, _, _, _)
SecondPass(gr, x, i, current, coeff) ==
    IF i > Len(x) THEN <<>>
    ELSE LET next == SmoothStep(gr[i], current, coeff)
         IN  <<FMul(x[i], next)>> \o SecondPass(gr, x, i + 1, next, coeff)

\* Limiter::process as a function of the limiter, the buffer and the rate.
LimiterProcess(lim, buf, rate) ==
    LET thr == db_to_linear(lim.threshold)
        n   == MsToSamples(lim.lookahead, rate)
        rs  == MsToSamples(lim.release_time, rate)
        gr  == FirstPass([k \in 1..Len(buf) |-> ONE], buf, 1, thr, n)
    IN  SecondPass(gr, buf, 1, ONE, ExpNegInv(rs))

LimStart ==
    /\ lim_pc = "start"
    /\ lim_args = NoValue
    /\ limiter = NoValue
    /\ lim_error = NoValue
    /\ samples = <<>>
    /\ sample_rate = 0
    /\ gain_reduction = <<>>
    /\ current_reduction = ONE
    /\ output = <<>>
    /\ applied = <<>>
    /\ lim_i = 0

(***************************************************************************)
(* AudioNormalizer::new                                                    *)
(***************************************************************************)
MAX_TARGET_LOUDNESS == -1000

MAX_PEAK_CEILING == -10

\* AudioNormalizer::new arguments, valid and invalid.
TargetLoudnessArgs == {-1800, -1400, -1000, -900, 0, 100}
PeakCeilingArgs == {-100, -10, -5, 0, 100}

\* Mutant: the maximum of the peak ceiling is not checked.
AudioNormalizerNewError_NoPeakMaximum(target_loudness, peak_ceiling) ==
    IF target_loudness >= 0
    THEN [param |-> "Target loudness", msg |-> "must be negative"]
    ELSE IF peak_ceiling >= 0
    THEN [param |-> "Peak ceiling", msg |-> "must be negative"]
    ELSE IF target_loudness > -1000
    THEN [param |-> "Target loudness", msg |-> "exceeds maximum allowed value"]
    ELSE NoValue

\* The error AudioNormalizer::new returns for its arguments, or NoValue.
AudioNormalizerNewError(target_loudness, peak_ceiling) ==
    IF target_loudness >= 0
    THEN [param |-> "Target loudness", msg |-> "must be negative"]
    ELSE IF peak_ceiling >= 0
    THEN [param |-> "Peak ceiling", msg |-> "must be negative"]
    ELSE IF target_loudness > MAX_TARGET_LOUDNESS
    THEN [param |-> "Target loudness", msg |-> "exceeds maximum allowed value"]
    ELSE IF peak_ceiling > MAX_PEAK_CEILING
    THEN [param |-> "Peak ceiling", msg |-> "exceeds maximum allowed value"]
    ELSE NoValue

AudioNormalizerNew(target_loudness, peak_ceiling) ==
    /\ norm_pc = "start"
    /\ norm_args' = [target_loudness |-> target_loudness,
                     peak_ceiling |-> peak_ceiling]
    /\ LET err == AudioNormalizerNewError(target_loudness, peak_ceiling)
       IN  IF err = NoValue
           THEN /\ normalizer' = [target_loudness |-> target_loudness,
                                  peak_ceiling |-> peak_ceiling]
                /\ norm_error' = NoValue
                /\ norm_pc' = "constructed"
           ELSE /\ normalizer' = NoValue
                /\ norm_error' = err
                /\ norm_pc' = "rejected"
    /\ UNCHANGED <<files, files0, input_path, working_path, decoded, loudness,
                   gain, final_gain, normalized_samples, stages>>
    /\ UNCHANGED <<limVars, discVars, dspVars, dirVars>>

(***************************************************************************)
(* Paths and files.  A path is its file stem (a base name and the number   *)
(* of "-normalized" suffixes) and its extension.                           *)
(***************************************************************************)
Path(base, n, ext) == [base |-> base, normalized |-> n, ext |-> ext]

with_extension(path, ext) == [path EXCEPT !.ext = ext]

is_opus_file(path) == path.ext = "ogg"

create_output_path(path) ==
    [base |-> path.base, normalized |-> path.normalized + 1, ext |-> "mp3"]

\* The paths normalize_file is called with.
InputPaths == {Path("a", 0, "ogg"), Path("a", 0, "mp3")}

\* The file systems normalize_file starts from: the inputs alone, and the
\* inputs beside the output of an earlier run.
FileSystems ==
    { [p \in InputPaths |-> "original"],
      [p \in InputPaths \cup {Path("a", 1, "mp3")} |-> "original"],
      [p \in {Path("a", 0, "ogg")} |-> "original"] }

\* The file system with content written to path.
WriteFile(fs, path, content) ==
    [p \in DOMAIN fs \cup {path} |-> IF p = path THEN content ELSE fs[p]]

\* Mutant: the file is not removed.
RemoveFile_KeepsFile(fs, path) == fs

RemoveFile(fs, path) == [p \in DOMAIN fs \ {path} |-> fs[p]]

Fail(msg) ==
    /\ norm_pc' = "failed"
    /\ norm_error' = [msg |-> msg]

(***************************************************************************)
(* normalize_file, stage by stage.                                         *)
(***************************************************************************)
\* prepare_working_file: an .ogg input is converted to <stem>.mp3 by ffmpeg
\* (which overwrites, -y), any other input is the working file itself.
PrepareWorkingFile(fs, path) ==
    /\ norm_pc = "constructed"
    /\ files0' = fs
    /\ input_path' = path
    /\ stages' = Append(stages, "prepare")
    /\ IF ~is_opus_file(path)
       THEN /\ working_path' = path
            /\ files' = fs
            /\ norm_pc' = "prepared"
            /\ UNCHANGED norm_error
       ELSE \/ /\ path \in DOMAIN fs
               /\ working_path' = with_extension(path, "mp3")
               /\ files' = WriteFile(fs, with_extension(path, "mp3"), "converted")
               /\ norm_pc' = "prepared"
               /\ UNCHANGED norm_error
            \/ /\ files' = fs
               /\ Fail("FFmpeg conversion failed")
               /\ UNCHANGED working_path
    /\ UNCHANGED <<norm_args, normalizer, decoded, loudness, gain, final_gain,
                   normalized_samples>>
    /\ UNCHANGED <<limVars, discVars, dspVars, dirVars>>

NonEmptyBuffers == {b \in Buffers : b # <<>>}

\* process_audio_stream: the working file is opened, probed and decoded;
\* decode_to_samples fails on an empty result.
ProcessAudioStream ==
    /\ norm_pc = "prepared"
    /\ stages' = Append(stages, "decode")
    /\ \/ /\ working_path \in DOMAIN files
          /\ \E buf \in NonEmptyBuffers : decoded' = buf
          /\ norm_pc' = "decoded"
          /\ UNCHANGED norm_error
       \/ /\ Fail("decode failed")
          /\ UNCHANGED decoded
    /\ UNCHANGED <<norm_args, normalizer, files, files0, input_path,
                   working_path, loudness, gain, final_gain, normalized_samples>>
    /\ UNCHANGED <<limVars, discVars, dspVars, dirVars>>

\* An f64 that may be infinite: a finite value, or an infinity by its sign.
Fin(v) == [inf |-> 0, v |-> v]

NegInf == [inf |-> -1, v |-> 0]

PosInf == [inf |-> 1, v |-> 0]

IsFinite(x) == x.inf = 0

\* A value that is present.
Some(v) == [value |-> v]

\* What the EBU R128 meter can return for a buffer: an error, minus infinity
\* (always for silence), or a loudness in LUFS no louder than the peak
\* allows.
LoudnessValues == {-3000, -2300, -900, -300}

MeterResults(buf) ==
    {[ok |-> FALSE], [ok |-> TRUE, value |-> NegInf]}
        \cup {[ok |-> TRUE, value |-> Fin(l)] : l \in {v \in LoudnessValues :
                  db_to_linear(v) <= 2 * SeqMax(buf)}}

\* 10f64.powf(gain_db / 20.0) on the extended reals.
PowfDb(gain_db) ==
    IF gain_db = PosInf THEN PosInf
    ELSE IF gain_db = NegInf THEN Fin(0)
    ELSE Fin(db_to_linear(gain_db.v))

\* Mutant: the difference is taken the wrong way round.
GainDb_Reversed(target_loudness, current_loudness) ==
    IF current_loudness = NegInf THEN NegInf
    ELSE IF current_loudness = PosInf THEN PosInf
    ELSE Fin(current_loudness.v - target_loudness)

\* target_loudness - current_loudness on the extended reals.
GainDb(target_loudness, current_loudness) ==
    IF current_loudness = NegInf THEN PosInf
    ELSE IF current_loudness = PosInf THEN NegInf
    ELSE Fin(target_loudness - current_loudness.v)

\* Mutant: a loudness that is not finite silently defaults to unity gain.
measure_loudness_DefaultsToUnity(target_loudness, metered) ==
    IF ~metered.ok THEN [ok |-> FALSE, msg |-> "Failed to analyze audio samples"]
    ELSE IF ~IsFinite(metered.value) THEN [ok |-> TRUE, value |-> ONE]
    ELSE [ok |-> TRUE, value |-> PowfDb(GainDb(target_loudness, metered.value)).v]

\* Mutant: the loudness of silence is taken for the target itself.
measure_loudness_SilenceAtTarget(target_loudness, metered) ==
    IF ~metered.ok THEN [ok |-> FALSE, msg |-> "Failed to analyze audio samples"]
    ELSE LET current == IF metered.value = NegInf THEN Fin(target_loudness)
                        ELSE metered.value
             linear_gain == PowfDb(GainDb(target_loudness, current))
         IN  IF ~IsFinite(linear_gain)
             THEN [ok |-> FALSE, msg |-> "Invalid gain value calculated"]
             ELSE [ok |-> TRUE, value |-> linear_gain.v]

\* measure_loudness after the meter has answered: Ok(linear_gain) or Err.
measure_loudness(target_loudness, metered) ==
    IF ~metered.ok THEN [ok |-> FALSE, msg |-> "Failed to analyze audio samples"]
    ELSE IF ~IsFinite(metered.value)
    THEN [ok |-> FALSE, msg |-> "Invalid loudness value calculated"]
    ELSE LET linear_gain == PowfDb(GainDb(target_loudness, metered.value))
         IN  IF ~IsFinite(linear_gain)
             THEN [ok |-> FALSE, msg |-> "Invalid gain value calculated"]
             ELSE [ok |-> TRUE, value |-> linear_gain.v]

\* calculate_normalization_gain: the meter runs once, measure_loudness turns
\* its answer into the gain or into the error that ends normalize_file.
CalculateNormalizationGain ==
    /\ norm_pc = "decoded"
    /\ stages' = Append(stages, "measure")
    /\ \E metered \in MeterResults(decoded) :
           LET res == measure_loudness(normalizer.target_loudness, metered)
           IN  /\ loudness' = metered
               /\ IF res.ok
                  THEN /\ gain' = Some(res.value)
                       /\ norm_pc' = "measured"
                       /\ UNCHANGED norm_error
                  ELSE /\ Fail(res.msg)
                       /\ UNCHANGED gain
    /\ UNCHANGED <<norm_args, normalizer, files, files0, input_path,
                   working_path, decoded, final_gain, normalized_samples>>
    /\ UNCHANGED <<limVars, discVars, dspVars, dirVars>>

\* Mutant: the gain is not clamped.
FinalGain_Unclamped(buf, g, peak_ceiling) == g

\* Mutant: the gain is capped at the ceiling itself, whatever the peak.
FinalGain_CappedAtCeiling(buf, g, peak_ceiling) ==
    Min(g, db_to_linear(peak_ceiling))

\* Mutant: a silent buffer gets no gain at all.
FinalGain_ZeroForSilence(buf, g, peak_ceiling) ==
    LET peak_limit   == db_to_linear(peak_ceiling)
        current_peak == SeqMax(buf)
    IN  IF current_peak = 0 THEN 0
        ELSE Min(g, FDiv(peak_limit, current_peak))

\* Mutant: the peak is always brought to the ceiling, also by raising the
\* gain.
FinalGain_AlwaysMaxGain(buf, g, peak_ceiling) ==
    LET peak_limit   == db_to_linear(peak_ceiling)
        current_peak == SeqMax(buf)
    IN  IF current_peak = 0 THEN g
        ELSE FDiv(peak_limit, current_peak)

\* apply_gain, lines 139-153: the gain after the ceiling clamp.  A peak of 0
\* makes max_gain infinite, and min(gain, inf) is gain.
FinalGain(buf, g, peak_ceiling) ==
    LET peak_limit   == db_to_linear(peak_ceiling)
        current_peak == SeqMax(buf)
    IN  IF current_peak = 0 THEN g
        ELSE Min(g, FDiv(peak_limit, current_peak))

\* Mutant: the last sample is dropped.
apply_gain_DropsLast(buf, g, peak_ceiling) ==
    [k \in 1..(Len(buf) - 1) |-> FMul(buf[k], FinalGain(buf, g, peak_ceiling))]

\* apply_gain, lines 161-167: every sample times the final gain.
apply_gain(buf, g, peak_ceiling) ==
    [k \in 1..Len(buf) |-> FMul(buf[k], FinalGain(buf, g, peak_ceiling))]

ApplyGain ==
    /\ norm_pc = "measured"
    /\ stages' = Append(stages, "apply_gain")
    /\ final_gain' = Some(FinalGain(decoded, gain.value, normalizer.peak_ceiling))
    /\ normalized_samples' = apply_gain(decoded, gain.value, normalizer.peak_ceiling)
    /\ norm_pc' = "gained"
    /\ UNCHANGED <<norm_args, normalizer, norm_error, files, files0, input_path,
                   working_path, decoded, loudness, gain>>
    /\ UNCHANGED <<limVars, discVars, dspVars, dirVars>>

\* Mutant: the output is written as soon as the gain is known, before the
\* clamp has run.
WriteMp3_BeforeClamp ==
    /\ norm_pc \in {"measured", "gained"}
    /\ stages' = Append(stages, "write")
    /\ \/ /\ files' = WriteFile(files, create_output_path(input_path), "normalized")
          /\ norm_pc' = "written"
          /\ UNCHANGED norm_error
       \/ /\ Fail("Failed to create output MP3 file")
          /\ UNCHANGED files
    /\ UNCHANGED <<norm_args, normalizer, files0, input_path, working_path,
                   decoded, loudness, gain, final_gain, normalized_samples>>
    /\ UNCHANGED <<limVars, discVars, dspVars, dirVars>>

\* write_mp3: the output file is created and the encoded samples written.
WriteMp3 ==
    /\ norm_pc = "gained"
    /\ stages' = Append(stages, "write")
    /\ \/ /\ files' = WriteFile(files, create_output_path(input_path), "normalized")
          /\ norm_pc' = "written"
          /\ UNCHANGED norm_error
       \/ /\ Fail("Failed to create output MP3 file")
          /\ UNCHANGED files
    /\ UNCHANGED <<norm_args, normalizer, files0, input_path, working_path,
                   decoded, loudness, gain, final_gain, normalized_samples>>
    /\ UNCHANGED <<limVars, discVars, dspVars, dirVars>>

\* Lines 91-96: a converted working file is removed.
Cleanup ==
    /\ norm_pc = "written"
    /\ stages' = Append(stages, "cleanup")
    /\ IF working_path # input_path
       THEN \/ /\ files' = RemoveFile(files, working_path)
               /\ norm_pc' = "ok"
               /\ UNCHANGED norm_error
            \/ /\ Fail("remove_file failed")
               /\ UNCHANGED files
       ELSE /\ norm_pc' = "ok"
            /\ UNCHANGED <<files, norm_error>>
    /\ UNCHANGED <<norm_args, normalizer, files0, input_path, working_path,
                   decoded, loudness, gain, final_gain, normalized_samples>>
    /\ UNCHANGED <<limVars, discVars, dspVars, dirVars>>

NormStart ==
    /\ norm_pc = "start"
    /\ norm_args = NoValue
    /\ normalizer = NoValue
    /\ norm_error = NoValue
    /\ files = <<>>
    /\ files0 = <<>>
    /\ input_path = NoValue
    /\ working_path = NoValue
    /\ decoded = <<>>
    /\ loudness = NoValue
    /\ gain = NoValue
    /\ final_gain = NoValue
    /\ normalized_samples = <<>>
    /\ stages = <<>>

(***************************************************************************)
(* The soundboard batch of discord.rs.  A sound of the store is            *)
(* [id, name, normalized]; a run is one call of the bot's normalize        *)
(* command, which lists the guild's sounds and hands them to               *)
(* process_guild_sounds.                                                   *)
(***************************************************************************)
MaxSounds == 2

RunIds == {1, 2}

SoundNames == {"a", "b"}

Sound(id, name, normalized) == [id |-> id, name |-> name, normalized |-> normalized]

\* The soundboards a run starts from: 1..MaxSounds original sounds; names
\* need not differ.
InitialStores ==
    {[k \in 1..Len(names) |-> Sound(k, names[k], FALSE)] :
        names \in SeqsUpTo(SoundNames, MaxSounds) \ {<<>>}}

\* sounds.iter().find(|s| s.name == sound_name): the first sound of that
\* name, or NoValue.
FindByName(sounds, name) ==
    IF \E k \in 1..Len(sounds) : sounds[k].name = name
    THEN LET first == CHOOSE k \in 1..Len(sounds) :
                          /\ sounds[k].name = name
                          /\ \A j \in 1..(k - 1) : sounds[j].name # name
         IN  sounds[first]
    ELSE NoValue

HasId(sounds, id) == \E k \in 1..Len(sounds) : sounds[k].id = id

RemoveId(sounds, id) == SelectSeq(sounds, LAMBDA snd : snd.id # id)

Request(run, op, id, name, ok) ==
    [run |-> run, op |-> op, id |-> id, name |-> name, ok |-> ok]

CurrentSound(r) == d_sounds[r][d_index[r]]

\* The bot's normalize command, lines 58-68: the guild's sounds are listed
\* and process_guild_sounds starts on them.
NormalizeCommand(r) ==
    /\ d_pc[r] = "idle"
    /\ \/ /\ d_sounds' = [d_sounds EXCEPT ![r] = store]
          /\ d_index' = [d_index EXCEPT ![r] = 1]
          /\ d_pc' = [d_pc EXCEPT ![r] = IF store = <<>> THEN "done" ELSE "download"]
       \/ /\ d_pc' = [d_pc EXCEPT ![r] = "aborted"]
          /\ UNCHANGED <<d_sounds, d_index>>
    /\ UNCHANGED <<store, next_id, requests, d_existing, d_attempted>>
    /\ UNCHANGED store0
    /\ UNCHANGED <<limVars, normVars, dspVars, dirVars>>

\* The end of one iteration of the loop of process_guild_sounds: the next
\* sound, or Ok(()).
NextSound(r) ==
    /\ d_index' = [d_index EXCEPT ![r] = d_index[r] + 1]
    /\ d_pc' = [d_pc EXCEPT ![r] =
                   IF d_index[r] + 1 > Len(d_sounds[r]) THEN "done" ELSE "download"]

\* Lines 74-76: `download_soundboard_sound(..).await?` returns the error
\* from process_guild_sounds.
DownloadFailed(r) ==
    /\ d_pc' = [d_pc EXCEPT ![r] = "aborted"]
    /\ UNCHANGED d_index

\* Lines 74-88: the sound is downloaded; an audio/ogg download goes to the
\* conversion, any other straight to process_and_upload_sound.
Download(r) ==
    /\ d_pc[r] = "download"
    /\ d_attempted' = [d_attempted EXCEPT ![r] = @ \cup {d_index[r]}]
    /\ \/ /\ \E next \in {"convert", "process"} : d_pc' = [d_pc EXCEPT ![r] = next]
          /\ UNCHANGED d_index
       \/ DownloadFailed(r)
    /\ UNCHANGED <<store, next_id, requests, d_sounds, d_existing>>
    /\ UNCHANGED store0
    /\ UNCHANGED <<limVars, normVars, dspVars, dirVars>>

\* Lines 82-85: `opus_file.convert(..)?`.
Convert(r) ==
    /\ d_pc[r] = "convert"
    /\ \/ d_pc' = [d_pc EXCEPT ![r] = "process"]
       \/ d_pc' = [d_pc EXCEPT ![r] = "aborted"]
    /\ UNCHANGED <<store, next_id, requests, d_sounds, d_index, d_existing,
                   d_attempted>>
    /\ UNCHANGED store0
    /\ UNCHANGED <<limVars, normVars, dspVars, dirVars>>

\* process_and_upload_sound, lines 111-118: decode, process, encode.  An
\* error is returned to the match of process_guild_sounds, which logs it.
ProcessSamples(r) ==
    /\ d_pc[r] = "process"
    /\ \/ /\ d_pc' = [d_pc EXCEPT ![r] = "list"]
          /\ UNCHANGED d_index
       \/ NextSound(r)
    /\ UNCHANGED <<store, next_id, requests, d_sounds, d_existing, d_attempted>>
    /\ UNCHANGED store0
    /\ UNCHANGED <<limVars, normVars, dspVars, dirVars>>

\* Lines 121-122: the guild's sounds are listed again and the sound of the
\* same name looked up.
GetGuildSounds(r) ==
    /\ d_pc[r] = "list"
    /\ \/ /\ d_existing' = [d_existing EXCEPT ![r] =
                               FindByName(store, CurrentSound(r).name)]
          /\ d_pc' = [d_pc EXCEPT ![r] = "create"]
          /\ UNCHANGED d_index
       \/ /\ NextSound(r)
          /\ UNCHANGED d_existing
    /\ UNCHANGED <<store, next_id, requests, d_sounds, d_attempted>>
    /\ UNCHANGED store0
    /\ UNCHANGED <<limVars, normVars, dspVars, dirVars>>

\* Mutant: the original is deleted whether or not the upload succeeded.
AfterCreate_DeletesAnyway(r, ok) ==
    IF d_existing[r] # NoValue
    THEN /\ d_pc' = [d_pc EXCEPT ![r] = "delete"]
         /\ UNCHANGED d_index
    ELSE NextSound(r)

\* Lines 129-141 and 148-156: after `create_soundboard_sound(..).await?`.
\* A failed upload returns the error; a successful one is followed by the
\* delete when the sound existed.
AfterCreate(r, ok) ==
    IF ok /\ d_existing[r] # NoValue
    THEN /\ d_pc' = [d_pc EXCEPT ![r] = "delete"]
         /\ UNCHANGED d_index
    ELSE NextSound(r)

\* create_soundboard_sound: the POST adds a sound or is refused.
CreateSoundboardSound(r) ==
    /\ d_pc[r] = "create"
    /\ \E ok \in BOOLEAN :
           /\ store' = IF ok
                       THEN Append(store, Sound(next_id, CurrentSound(r).name, TRUE))
                       ELSE store
           /\ next_id' = IF ok THEN next_id + 1 ELSE next_id
           /\ requests' = Append(requests,
                  Request(r, "create", IF ok THEN next_id ELSE 0,
                          CurrentSound(r).name, ok))
           /\ AfterCreate(r, ok)
    /\ UNCHANGED <<d_sounds, d_existing, d_attempted>>
    /\ UNCHANGED store0
    /\ UNCHANGED <<limVars, normVars, dspVars, dirVars>>

\* delete_soundboard_sound of the original: the DELETE removes the sound or
\* is refused (always when the sound is gone).
DeleteSoundboardSound(r) ==
    /\ d_pc[r] = "delete"
    /\ \E ok \in {b \in BOOLEAN : b => HasId(store, d_existing[r].id)} :
           /\ store' = IF ok THEN RemoveId(store, d_existing[r].id) ELSE store
           /\ requests' = Append(requests,
                  Request(r, "delete", d_existing[r].id, d_existing[r].name, ok))
    /\ NextSound(r)
    /\ UNCHANGED <<next_id, d_sounds, d_existing, d_attempted>>
    /\ UNCHANGED store0
    /\ UNCHANGED <<limVars, normVars, dspVars, dirVars>>

\* A member of the guild removes an original sound in the Discord client
\* while a run is going on: the case the `None` branch of lines 142-157
\* ("Could not find existing sound") is written for.
ExternalDelete ==
    /\ \E k \in 1..Len(store) :
           /\ ~store[k].normalized
           /\ store' = RemoveId(store, store[k].id)
    /\ UNCHANGED <<next_id, requests, d_pc, d_sounds, d_index, d_existing,
                   d_attempted>>
    /\ UNCHANGED store0
    /\ UNCHANGED <<limVars, normVars, dspVars, dirVars>>

DiscStart(sounds) ==
    /\ store = sounds
    /\ store0 = sounds
    /\ next_id = Len(sounds) + 1
    /\ requests = <<>>
    /\ d_pc = [r \in RunIds |-> "idle"]
    /\ d_sounds = [r \in RunIds |-> <<>>]
    /\ d_index = [r \in RunIds |-> 0]
    /\ d_existing = [r \in RunIds |-> NoValue]
    /\ d_attempted = [r \in RunIds |-> {}]

(***************************************************************************)
(* The free functions of dsp.rs and the dynamics stages called on their    *)
(* own.  Here a sample is an f32 that may be NaN: [nan, v].                *)
(***************************************************************************)
F32(v) == [nan |-> FALSE, v |-> v]

NaN == [nan |-> TRUE, v |-> 0]

\* Mutant: the sign is kept.
FAbs_KeepsSign(x) == x

\* f32::abs.
FAbs(x) == IF x.nan THEN NaN ELSE F32(Abs(x.v))

\* f64::partial_cmp: None as soon as one side is NaN.
partial_cmp(a, b) ==
    IF a.nan \/ b.nan THEN "None"
    ELSE IF a.v < b.v THEN "Less"
    ELSE IF a.v > b.v THEN "Greater"
    ELSE "Equal"

\* A call that panicked, and one that returned v.
Panicked == [panic |-> TRUE, value |-> NaN]

Returned(v) == [panic |-> FALSE, value |-> v]

\* Iterator::max_by(|a, b| a.partial_cmp(b).unwrap()) from position k on,
\* acc the maximum so far: of equal elements the later one is kept, and
\* unwrap panics on None.
RECURSIVE MaxByFrom(_, _, _)
MaxByFrom(s, k, acc) ==
    IF k > Len(s) THEN Returned(acc)
    ELSE LET ord == partial_cmp(acc, s[k])
         IN  IF ord = "None" THEN Panicked
             ELSE MaxByFrom(s, k + 1, IF ord = "Greater" THEN acc ELSE s[k])

\* max_peak: the scan over |sample|, 0.0 for the empty buffer.
max_peak(s) ==
    LET mags == [k \in 1..Len(s) |-> FAbs(s[k])]
    IN  IF Len(s) = 0 THEN Returned(F32(0))
        ELSE MaxByFrom(mags, 2, mags[1])

HasNaN(s) == \E k \in 1..Len(s) : s[k].nan

\* A buffer of numbers as f32 samples, and back.
Lift(buf) == [k \in 1..Len(buf) |-> F32(buf[k])]

Values(s) == [k \in 1..Len(s) |-> s[k].v]

\* The buffers the functions are called with: Buffers, and NaN anywhere.
F32Buffers == SeqsUpTo({F32(v) : v \in SampleValues} \cup {NaN}, MaxLen)

\* Linear gains: 0.5, 1.0, 4.0.
GainValues == {ONE \div 2, ONE, 4 * ONE}

\* The limiters Limiter::new accepts.
Limiters ==
    {[threshold |-> t, release_time |-> r, lookahead |-> l] :
        t \in {a \in ThresholdArgs : a < 0 /\ a <= MAX_THRESHOLD},
        r \in {a \in ReleaseArgs : a > 0},
        l \in {a \in LookaheadArgs : a # 0}}

\* The peak ceilings AudioNormalizer::new accepts.
PeakCeilings == {p \in PeakCeilingArgs : p < 0 /\ p <= MAX_PEAK_CEILING}

Call(fn, buf, g, peak_ceiling, lim, rate) ==
    [fn |-> fn, samples |-> buf, gain |-> g, peak_ceiling |-> peak_ceiling,
     limiter |-> lim, sample_rate |-> rate]

Result(peak, fg, out) == [peak |-> peak, final_gain |-> fg, out |-> out]

\* max_peak(&buf).
MaxPeakCall(buf) ==
    /\ dsp_pc = "start"
    /\ dsp_call' = Call("max_peak", buf, 0, 0, NoValue, 0)
    /\ LET scan == max_peak(buf)
       IN  IF scan.panic
           THEN /\ dsp_pc' = "panicked"
                /\ dsp_result' = NoValue
           ELSE /\ dsp_pc' = "returned"
                /\ dsp_result' = Result(scan.value, 0, <<>>)
    /\ UNCHANGED <<limVars, normVars, discVars, dirVars>>

\* apply_gain(&buf, g) of a normalizer with the given peak ceiling.  The
\* scan of lines 143-147 is that of max_peak; a NaN peak makes max_gain NaN,
\* and min(g, NaN) is g.
ApplyGainCall(buf, g, peak_ceiling) ==
    /\ dsp_pc = "start"
    /\ dsp_call' = Call("apply_gain", buf, g, peak_ceiling, NoValue, 0)
    /\ LET scan == max_peak(buf)
       IN  IF scan.panic
           THEN /\ dsp_pc' = "panicked"
                /\ dsp_result' = NoValue
           ELSE /\ dsp_pc' = "returned"
                /\ dsp_result' =
                       IF HasNaN(buf)
                       THEN Result(scan.value, g,
                                   [k \in 1..Len(buf) |->
                                       IF buf[k].nan THEN NaN
                                       ELSE F32(FMul(buf[k].v, g))])
                       ELSE Result(scan.value,
                                   FinalGain(Values(buf), g, peak_ceiling),
                                   Lift(apply_gain(Values(buf), g, peak_ceiling)))
    /\ UNCHANGED <<limVars, normVars, discVars, dirVars>>

\* lim.process(&buf, channels, rate) as one call.
LimiterProcessCall(lim, buf, rate) ==
    /\ dsp_pc = "start"
    /\ dsp_call' = Call("process", Lift(buf), 0, 0, lim, rate)
    /\ dsp_pc' = "returned"
    /\ dsp_result' = Result(F32(0), 0, Lift(LimiterProcess(lim, buf, rate)))
    /\ UNCHANGED <<limVars, normVars, discVars, dirVars>>

\* apply_gain of audio.rs (the AudioNormalizer of the earpeace binary): the
\* gain is capped at the linear peak ceiling itself, peak_gain =
\* 10^(peak_ceiling / 20), without a scan of the buffer.
audio_final_gain(g, peak_ceiling) == Min(g, db_to_linear(peak_ceiling))

audio_apply_gain(buf, g, peak_ceiling) ==
    [k \in 1..Len(buf) |-> FMul(buf[k], audio_final_gain(g, peak_ceiling))]

\* apply_gain(&buf, g) of the audio.rs normalizer; a NaN sample stays NaN.
AudioApplyGainCall(buf, g, peak_ceiling) ==
    /\ dsp_pc = "start"
    /\ dsp_call' = Call("audio::apply_gain", buf, g, peak_ceiling, NoValue, 0)
    /\ dsp_pc' = "returned"
    /\ dsp_result' =
           Result(F32(0), audio_final_gain(g, peak_ceiling),
                  [k \in 1..Len(buf) |->
                      IF buf[k].nan THEN NaN
                      ELSE F32(FMul(buf[k].v, audio_final_gain(g, peak_ceiling)))])
    /\ UNCHANGED <<limVars, normVars, discVars, dirVars>>

\* 16-bit samples as convert_samples_to_i16 produces them, and the channel
\* counts of a track.
I16Values == {-32768, 0, 32767}

I16Buffers == SeqsUpTo(I16Values, MaxLen)

ChannelCounts == {1, 2, 3}

\* samples.chunks(2): the k-th chunk, the last one possibly of one sample.
Chunk(pcm, k) ==
    IF 2 * k <= Len(pcm) THEN <<pcm[2 * k - 1], pcm[2 * k]>>
    ELSE <<pcm[2 * k - 1]>>

\* Mp3File::split_channels: for 2 channels one entry per chunk of two, an
\* unpaired last sample going to both sides; for any other count the whole
\* buffer on both sides.
split_channels(pcm, channels) ==
    IF channels = 2
    THEN LET n == (Len(pcm) + 1) \div 2
         IN  [left  |-> [k \in 1..n |-> Chunk(pcm, k)[1]],
              right |-> [k \in 1..n |->
                            IF Len(Chunk(pcm, k)) > 1
                            THEN Chunk(pcm, k)[2]
                            ELSE Chunk(pcm, k)[1]]]
    ELSE [left |-> pcm, right |-> pcm]

\* Mp3File::split_channels(&samples, channels).
SplitChannelsCall(buf, channels) ==
    /\ dsp_pc = "start"
    /\ dsp_call' = [fn |-> "split_channels", samples |-> buf,
                    channels |-> channels]
    /\ dsp_pc' = "returned"
    /\ dsp_result' = split_channels(buf, channels)
    /\ UNCHANGED <<limVars, normVars, discVars, dirVars>>

DspStart ==
    /\ dsp_pc = "start"
    /\ dsp_call = NoValue
    /\ dsp_result = NoValue

(***************************************************************************)
(* process_directory of the earpeace binary: every mp3, wav or ogg entry   *)
(* that read_dir returns is given to normalize_file, which writes its      *)
(* output into the directory that is being read.                           *)
(***************************************************************************)
\* How many "-normalized" suffixes the stem of an entry may carry for
\* read_dir to return it.
MaxChain == 2

\* The entries a directory may hold when process_directory is called.
DirEntries ==
    {Path("a", 0, "mp3"), Path("b", 0, "wav"), Path("c", 0, "ogg"),
     Path("d", 0, "txt")}

Directories == SUBSET DirEntries \ {{}}

\* matches!(extension.to_str(), Some("mp3" | "wav" | "ogg"))
IsAudio(path) == path.ext \in {"mp3", "wav", "ogg"}

\* What a successful normalize_file(path) of audio.rs leaves in the
\* directory: the output, and for an .ogg input no <stem>.mp3 (the working
\* file, removed by the cleanup).
NormalizedDir(fs, path) ==
    IF is_opus_file(path)
    THEN (fs \ {with_extension(path, "mp3")}) \cup {create_output_path(path)}
    ELSE fs \cup {create_output_path(path)}

\* The call, up to fs::read_dir(dir_path)?.
ProcessDirectory(fs) ==
    /\ dir_pc = "start"
    /\ dir_files0' = fs
    /\ dir_files' = fs
    /\ dir_pc' = "scanning"
    /\ UNCHANGED <<dir_seen, dir_processed>>
    /\ UNCHANGED <<limVars, normVars, discVars, dspVars>>

\* One iteration of the loop: read_dir returns an entry it has not returned
\* yet.  Whether an entry created after the directory was opened is returned
\* is left open by readdir; it is a choice here.  An audio entry is
\* normalized, and a failure ends the call.
ReadDirEntry ==
    /\ dir_pc = "scanning"
    /\ \E path \in dir_files \ dir_seen :
           /\ path.normalized <= MaxChain
           /\ dir_seen' = dir_seen \cup {path}
           /\ IF IsAudio(path)
              THEN /\ dir_processed' = Append(dir_processed, path)
                   /\ \/ /\ dir_files' = NormalizedDir(dir_files, path)
                         /\ UNCHANGED dir_pc
                      \/ /\ dir_pc' = "failed"
                         /\ UNCHANGED dir_files
              ELSE UNCHANGED <<dir_pc, dir_files, dir_processed>>
    /\ UNCHANGED dir_files0
    /\ UNCHANGED <<limVars, normVars, discVars, dspVars>>

\* read_dir is exhausted: every entry that was there when the directory was
\* opened, and still is, has been returned.
ReadDirEnd ==
    /\ dir_pc = "scanning"
    /\ (dir_files0 \cap dir_files) \subseteq dir_seen
    /\ dir_pc' = "done"
    /\ UNCHANGED <<dir_files0, dir_files, dir_seen, dir_processed>>
    /\ UNCHANGED <<limVars, normVars, discVars, dspVars>>

DirStart ==
    /\ dir_pc = "start"
    /\ dir_files0 = {}
    /\ dir_files = {}
    /\ dir_seen = {}
    /\ dir_processed = <<>>

(***************************************************************************)
(* Specifications: one per component, the other components at rest.        *)
(***************************************************************************)
LimInit == LimStart /\ NormStart /\ DiscStart(<<>>) /\ DspStart /\ DirStart

LimNext ==
    \/ \E t \in ThresholdArgs, r \in ReleaseArgs, l \in LookaheadArgs :
           LimiterNew(t, r, l)
    \/ \E buf \in Buffers, rate \in SampleRates : ProcessBegin(buf, rate)
    \/ FirstPassStep
    \/ SecondPassBegin
    \/ SecondPassStep
    \/ ProcessReturn

SpecLimiter == LimInit /\ [][LimNext]_vars

\* A call of process runs to its end: its loops are not interrupted.
SpecLimiterFair ==
    /\ LimInit
    /\ [][LimNext]_vars
    /\ WF_vars(FirstPassStep)
    /\ WF_vars(SecondPassBegin)
    /\ WF_vars(SecondPassStep)
    /\ WF_vars(ProcessReturn)

NormInit == LimStart /\ NormStart /\ DiscStart(<<>>) /\ DspStart /\ DirStart

NormNext ==
    \/ \E t \in TargetLoudnessArgs, p \in PeakCeilingArgs :
           AudioNormalizerNew(t, p)
    \/ \E fs \in FileSystems, path \in InputPaths : PrepareWorkingFile(fs, path)
    \/ ProcessAudioStream
    \/ CalculateNormalizationGain
    \/ ApplyGain
    \/ WriteMp3
    \/ Cleanup

SpecNormalizer == NormInit /\ [][NormNext]_vars

\* One run of the normalize command on a guild.
DiscInit ==
    /\ LimStart /\ NormStart /\ DspStart /\ DirStart
    /\ \E sounds \in InitialStores : DiscStart(sounds)

DiscNext ==
    \E r \in {1} :
        \/ NormalizeCommand(r)
        \/ Download(r)
        \/ Convert(r)
        \/ ProcessSamples(r)
        \/ GetGuildSounds(r)
        \/ CreateSoundboardSound(r)
        \/ DeleteSoundboardSound(r)

SpecDiscord == DiscInit /\ [][DiscNext]_vars

\* One run on a guild whose members may remove sounds meanwhile.
DiscEnvNext ==
    \/ NormalizeCommand(1)
    \/ Download(1)
    \/ Convert(1)
    \/ ProcessSamples(1)
    \/ GetGuildSounds(1)
    \/ CreateSoundboardSound(1)
    \/ DeleteSoundboardSound(1)
    \/ ExternalDelete

SpecDiscordEnv == DiscInit /\ [][DiscEnvNext]_vars

\* Two normalize commands on the same guild, their requests interleaved.
DiscPairNext ==
    \E r \in RunIds :
        \/ NormalizeCommand(r)
        \/ Download(r)
        \/ Convert(r)
        \/ ProcessSamples(r)
        \/ GetGuildSounds(r)
        \/ CreateSoundboardSound(r)
        \/ DeleteSoundboardSound(r)

SpecDiscordPair == DiscInit /\ [][DiscPairNext]_vars

\* The functions of dsp.rs and the two dynamics stages, one call each.
DspInit == LimStart /\ NormStart /\ DiscStart(<<>>) /\ DspStart /\ DirStart

DspNext ==
    \/ \E buf \in F32Buffers : MaxPeakCall(buf)
    \/ \E buf \in F32Buffers, g \in GainValues, p \in PeakCeilings :
           ApplyGainCall(buf, g, p)
    \/ \E lim \in Limiters, buf \in Buffers, rate \in SampleRates :
           LimiterProcessCall(lim, buf, rate)
    \/ \E buf \in F32Buffers, g \in GainValues, p \in PeakCeilings :
           AudioApplyGainCall(buf, g, p)
    \/ \E buf \in I16Buffers, channels \in ChannelCounts :
           SplitChannelsCall(buf, channels)

SpecDsp == DspInit /\ [][DspNext]_vars

\* One call of process_directory.
DirInit == LimStart /\ NormStart /\ DiscStart(<<>>) /\ DspStart /\ DirStart

DirNext ==
    \/ \E fs \in Directories : ProcessDirectory(fs)
    \/ ReadDirEntry
    \/ ReadDirEnd

SpecDirectory == DirInit /\ [][DirNext]_vars

(***************************************************************************)
(* Claims about the limiter, checked under SpecLimiter.                    *)
(***************************************************************************)

\* C1: for every Limiter accepted by Limiter::new, every sample rate and
\* every input buffer, each output sample of Limiter::process satisfies
\* |output[i]| <= db_to_linear(threshold), up to the tolerance Eps.
C1_OutputUnderThreshold ==
    lim_pc = "done" =>
        \A k \in 1..Len(output) : Abs(output[k]) <= db_to_linear(limiter.threshold) + Eps

\* C6: Limiter::new fails if threshold >= 0, if threshold exceeds -0.1 dB,
\* if release_time <= 0 or if lookahead_ms = 0, and succeeds for every other
\* combination, storing the three values unchanged.
C6_LimiterNewValidation ==
    lim_pc # "start" =>
        LET a   == lim_args
            bad == \/ a.threshold >= 0
                   \/ a.threshold > -10
                   \/ a.release_time <= 0
                   \/ a.lookahead_ms = 0
        IN  /\ bad => (lim_error # NoValue /\ limiter = NoValue)
            /\ ~bad => /\ lim_error = NoValue
                       /\ limiter # NoValue
                       /\ limiter.threshold = a.threshold
                       /\ limiter.release_time = a.release_time
                       /\ limiter.lookahead = a.lookahead_ms

\* C6 witness: the largest threshold allowed, -0.1 dB, was accepted and stored.
C6_Witness ==
    /\ lim_pc = "constructed"
    /\ limiter.threshold = -10
    /\ limiter.release_time = 50
    /\ limiter.lookahead = 2

\* C7: for a sample at index i >= 1 (0-based) whose magnitude exceeds the
\* threshold, the gain applied by Limiter::process is already below 1.0 at
\* some index strictly before i.
C7_ReducesBeforePeak ==
    lim_pc = "done" =>
        \A i \in 2..Len(samples) :
            Abs(samples[i]) > db_to_linear(limiter.threshold)
                => \E k \in 1..(i - 1) : applied[k] < ONE

\* C8 as stated: in the smoothing pass, once the scheduled reduction is back
\* at 1.0 after a transient, current_reduction strictly increases from
\* sample to sample until it reaches 1.0.
C8_ReleaseStrictlyIncreases ==
    \A i \in 2..Len(applied) :
        (gain_reduction[i] = ONE /\ applied[i - 1] < ONE)
            => applied[i] > applied[i - 1]

\* C8 as amended: in the smoothing pass current_reduction never decreases
\* from one sample to the next unless the scheduled reduction drops, and it
\* increases strictly while the release step (target - current) *
\* (1 - release_coeff) is at least one unit of the number format; below
\* that it may stay where it is without reaching the target.
C8_ReleaseNeverDecreases ==
    \A i \in 2..Len(applied) :
        gain_reduction[i] >= gain_reduction[i - 1] =>
            /\ applied[i] >= applied[i - 1]
            /\ (gain_reduction[i] - applied[i - 1]) * (ONE - release_coeff) >= ONE
                   => applied[i] > applied[i - 1]

\* C8 witness: after a transient the scheduled reduction is back at 1.0 and
\* the applied reduction has risen towards it without reaching it.
C8_Witness ==
    \E i \in 2..Len(applied) :
        /\ gain_reduction[i] = ONE
        /\ applied[i - 1] < applied[i]
        /\ applied[i] < ONE

(***************************************************************************)
(* Claims about the normalizer, checked under SpecNormalizer.              *)
(***************************************************************************)

\* C2: for any buffer and any unclamped gain, the buffer apply_gain returns
\* has a maximum absolute sample value at or below
\* db_to_linear(peak_ceiling), up to the tolerance Eps.
C2_CeilingClamp ==
    final_gain # NoValue =>
        SeqMax(normalized_samples) <= db_to_linear(normalizer.peak_ceiling) + Eps

\* C2 witness: the clamp lowered the gain and the output peak sits at the
\* ceiling.
C2_Witness ==
    /\ final_gain # NoValue
    /\ final_gain.value < gain.value
    /\ SeqMax(normalized_samples) >= db_to_linear(normalizer.peak_ceiling) - Eps

OutputUntouched ==
    LET out == create_output_path(input_path)
    IN  /\ (out \in DOMAIN files) <=> (out \in DOMAIN files0)
        /\ out \in DOMAIN files => files[out] = files0[out]

\* How often normalize_file has run a stage.
StageCount(stage) == Cardinality({k \in 1..Len(stages) : stages[k] = stage})

\* C9: when the measured integrated loudness is non-finite, measure_loudness
\* returns an error and normalize_file aborts: no gain is applied, no output
\* file is written, and the measurement is not retried.
C9_NonFiniteLoudnessAborts ==
    (loudness # NoValue /\ loudness.ok /\ ~IsFinite(loudness.value)) =>
        /\ norm_pc = "failed"
        /\ norm_error = [msg |-> "Invalid loudness value calculated"]
        /\ gain = NoValue
        /\ final_gain = NoValue
        /\ normalized_samples = <<>>
        /\ OutputUntouched
        /\ StageCount("measure") = 1
        /\ stages[Len(stages)] = "measure"

\* C9 witness: the meter returned minus infinity for a converted .ogg input
\* and normalize_file has failed.
C9_Witness ==
    /\ loudness # NoValue
    /\ loudness.ok
    /\ loudness.value = NegInf
    /\ norm_pc = "failed"
    /\ is_opus_file(input_path)

\* The loudness of the buffer apply_gain returned is within tol (hundredths
\* of a LU) of the target: scaling a buffer by g moves its integrated
\* loudness by 20 log10(g), so the gain that was applied lies strictly
\* between the gains for target - tol and target + tol.
RemeasuredWithin(tol) ==
    LET gain_db == normalizer.target_loudness - loudness.value.v
    IN  /\ db_to_linear(gain_db - tol) < final_gain.value
        /\ final_gain.value < db_to_linear(gain_db + tol)

\* C10 as stated: for any buffer with finite measured loudness and any valid
\* config, applying the gain returned by measure_loudness through apply_gain
\* yields a buffer whose integrated loudness is within 0.1 LUFS of
\* target_loudness.
C10_LoudnessAtTarget ==
    final_gain # NoValue => RemeasuredWithin(10)

\* C10 as amended: the result is within 0.1 LUFS of the target whenever the
\* ceiling clamp leaves the gain alone, that is when gain * peak is at most
\* db_to_linear(peak_ceiling); otherwise the clamped gain is applied and the
\* result is quieter than the target.
C10_LoudnessAtTargetUnlessClamped ==
    final_gain # NoValue =>
        LET gain_db == normalizer.target_loudness - loudness.value.v
        IN  IF gain.value * SeqMax(decoded)
                   <= db_to_linear(normalizer.peak_ceiling) * ONE
            THEN RemeasuredWithin(10)
            ELSE final_gain.value < db_to_linear(gain_db)

\* C10 witness: a quiet buffer was raised by an unclamped gain above 1.
C10_Witness ==
    /\ final_gain # NoValue
    /\ final_gain.value = gain.value
    /\ gain.value > ONE
    /\ SeqMax(normalized_samples) > SeqMax(decoded)

(***************************************************************************)
(* Claims about the soundboard batch, checked under SpecDiscord.           *)
(***************************************************************************)

\* The requests of run r before position k, latest first, are empty or
\* start at position j.
LastRequestBefore(k, j) ==
    /\ j < k
    /\ requests[j].run = requests[k].run
    /\ \A m \in (j + 1)..(k - 1) : requests[m].run # requests[k].run

\* C3: when a sound of the same name already exists in the remote store,
\* process_and_upload_sound issues the delete of the original only after the
\* create of the new version has returned success; if the upload fails, no
\* delete is issued and the original asset is still in the store.
C3_UploadThenDelete ==
    /\ \A k \in 1..Len(requests) :
           requests[k].op = "delete" =>
               \E j \in 1..(k - 1) :
                   /\ LastRequestBefore(k, j)
                   /\ requests[j].op = "create"
                   /\ requests[j].ok
                   /\ requests[j].name = requests[k].name
    /\ requests # <<>> =>
           LET last == requests[Len(requests)]
           IN  (last.op = "create" /\ ~last.ok /\ d_existing[last.run] # NoValue)
                   => /\ HasId(store, d_existing[last.run].id)
                      /\ d_pc[last.run] # "delete"

\* C3 witness: one upload was refused and its original is still in the
\* store; another succeeded and the delete of its original followed.
C3_Witness ==
    /\ \E k \in 1..Len(requests) :
           /\ requests[k].op = "create"
           /\ ~requests[k].ok
           /\ \E k2 \in 1..Len(store) : store[k2].name = requests[k].name
                                        /\ ~store[k2].normalized
    /\ \E k \in 2..Len(requests) :
           /\ requests[k].op = "delete"
           /\ requests[k].ok
           /\ requests[k - 1].op = "create"
           /\ requests[k - 1].ok

\* C4: in a batch a failure of any step for one item (download, conversion,
\* decode, measurement, encode, upload or delete) is caught and skipped:
\* every remaining item of the batch is still processed.
C4_BatchProcessesEveryItem ==
    \A r \in RunIds :
        (d_pc[r] \in {"done", "aborted"} /\ d_sounds[r] # <<>>)
            => d_attempted[r] = 1..Len(d_sounds[r])

(***************************************************************************)
(* Claims about silence and the order of the stages, checked under         *)
(* SpecNormalizer.                                                         *)
(***************************************************************************)

\* Every sample of the buffer is 0.
Silent(buf) == \A k \in 1..Len(buf) : buf[k] = 0

\* C11 as stated: an all-zero buffer of any length passes through the whole
\* normalization pipeline (measure loudness, compute gain, ceiling clamp) and
\* yields an all-zero buffer of the same length, without any error being
\* raised.
C11_SilencePassesThrough ==
    (Silent(decoded) /\ loudness # NoValue /\ loudness.ok) =>
        /\ norm_pc = "failed" => stages[Len(stages)] \notin {"measure", "apply_gain"}
        /\ final_gain # NoValue =>
               /\ Len(normalized_samples) = Len(decoded)
               /\ Silent(normalized_samples)

\* C11 as amended: an all-zero buffer does not pass the pipeline.
\* normalize_file returns an error from the measurement: the meter's
\* loudness of silence is not finite, which measure_loudness rejects with
\* "Invalid loudness value calculated" (or the meter itself fails).  No gain
\* is computed, the clamp does not run and the output file is not written.
C11_SilenceIsRejected ==
    (Silent(decoded) /\ loudness # NoValue) =>
        /\ norm_pc = "failed"
        /\ loudness.ok =>
               norm_error = [msg |-> "Invalid loudness value calculated"]
        /\ stages = <<"prepare", "decode", "measure">>
        /\ gain = NoValue
        /\ final_gain = NoValue
        /\ normalized_samples = <<>>
        /\ OutputUntouched

\* C11 witness: an .mp3 input decoded to two or more zero samples, and
\* normalize_file has failed in the measurement.
C11_Witness ==
    /\ Len(decoded) >= 2
    /\ Silent(decoded)
    /\ loudness # NoValue
    /\ loudness.ok
    /\ norm_pc = "failed"
    /\ ~is_opus_file(input_path)

(***************************************************************************)
(* Claims about the functions called on their own, checked under SpecDsp.  *)
(***************************************************************************)

\* C12: when the scanned peak of the buffer is 0 (a silent buffer),
\* apply_gain uses a final gain equal to the unclamped gain it was given and
\* returns an all-zero buffer of the same length instead of failing.
C12_SilentPeakKeepsGain ==
    (dsp_pc # "start" /\ dsp_call.fn = "apply_gain"
         /\ \A k \in 1..Len(dsp_call.samples) : dsp_call.samples[k] = F32(0)) =>
        /\ dsp_pc = "returned"
        /\ dsp_result.peak = F32(0)
        /\ dsp_result.final_gain = dsp_call.gain
        /\ Len(dsp_result.out) = Len(dsp_call.samples)
        /\ \A k \in 1..Len(dsp_result.out) : dsp_result.out[k] = F32(0)

\* C12 witness: apply_gain returned for two zero samples and a gain of 4.
C12_Witness ==
    /\ dsp_pc = "returned"
    /\ dsp_call.fn = "apply_gain"
    /\ dsp_call.samples = <<F32(0), F32(0)>>
    /\ dsp_call.gain = 4 * ONE
    /\ dsp_result.final_gain = 4 * ONE

\* C13: every dynamics stage returns a buffer of exactly the input length:
\* apply_gain(samples, gain) and Limiter::process(samples, ..) have the
\* length of samples, and output index i is input index i times a gain (the
\* final gain of apply_gain, a reduction in [0, 1] of the limiter).
C13_StagesKeepLength ==
    dsp_pc = "returned" =>
        LET in  == dsp_call.samples
            out == dsp_result.out
        IN  /\ dsp_call.fn = "apply_gain" =>
                /\ Len(out) = Len(in)
                /\ \A k \in 1..Len(in) :
                       out[k] = IF in[k].nan THEN NaN
                                ELSE F32(FMul(in[k].v, dsp_result.final_gain))
            /\ dsp_call.fn = "process" =>
                /\ Len(out) = Len(in)
                /\ \A k \in 1..Len(in) :
                       \E g \in 0..ONE : out[k].v = FMul(in[k].v, g)

\* C13 witness: the limiter returned three samples for three, the loud ones
\* reduced; (the clamp of apply_gain is the case of C2).
C13_Witness ==
    /\ dsp_pc = "returned"
    /\ dsp_call.fn = "process"
    /\ Len(dsp_call.samples) >= 2
    /\ Len(dsp_result.out) = Len(dsp_call.samples)
    /\ dsp_result.out # dsp_call.samples

\* C15: the peak scan is robust to NaN samples: max_peak (and the identical
\* scan inside apply_gain) returns a value for any buffer, including buffers
\* that contain NaN, and never panics on the comparison.
C15_PeakScanToleratesNaN ==
    (dsp_pc # "start" /\ dsp_call.fn \in {"max_peak", "apply_gain"}) =>
        dsp_pc = "returned"

\* C16: max_peak(buffer) equals the maximum of |sample| over the buffer, so
\* it is >= 0 for every buffer, and it is exactly 0 for the empty buffer and
\* for an all-zero buffer (buffers of numbers; NaN is the case of C15).
C16_MaxPeakIsMaximum ==
    (dsp_pc = "returned" /\ dsp_call.fn = "max_peak"
         /\ ~HasNaN(dsp_call.samples)) =>
        LET s    == dsp_call.samples
            peak == dsp_result.peak
        IN  /\ ~peak.nan
            /\ peak.v >= 0
            /\ \A k \in 1..Len(s) : Abs(s[k].v) <= peak.v
            /\ Len(s) > 0 => \E k \in 1..Len(s) : Abs(s[k].v) = peak.v
            /\ (\A k \in 1..Len(s) : s[k].v = 0) => peak.v = 0

\* C16 witness: the peak of a buffer is the magnitude of a negative sample
\* that is not the last one.
C16_Witness ==
    /\ dsp_pc = "returned"
    /\ dsp_call.fn = "max_peak"
    /\ dsp_call.samples = <<F32(-800), F32(300)>>
    /\ dsp_result.peak = F32(800)

(***************************************************************************)
(* Further claims about the limiter, checked under SpecLimiter and, for    *)
(* termination, SpecLimiterFair.                                           *)
(***************************************************************************)

\* C14: once a Limiter is constructed, Limiter::process never fails: for
\* every input buffer (the empty one included) and every sample rate (those
\* for which lookahead_samples or release_samples truncate to 0 included) it
\* never panics on an index and it terminates, returning Ok with the output.
C14_ProcessReturnsOk ==
    /\ [](lim_pc # "panicked")
    /\ (lim_pc = "first_pass") ~> (lim_pc = "done" /\ Len(output) = Len(samples))

\* C14 witness: process has returned for a buffer whose last sample
\* overshoots, with a lookahead window that runs past the end of the buffer.
C14_Witness ==
    /\ lim_pc = "done"
    /\ Len(samples) >= 2
    /\ Abs(samples[Len(samples)]) > threshold_linear
    /\ lookahead_samples >= 2

(***************************************************************************)
(* Further claims about the normalizer, checked under SpecNormalizer.      *)
(***************************************************************************)

\* C17: the gain calculation returns db_to_linear(target_loudness -
\* measured_loudness) for every finite measured loudness (a gain above 1
\* when the input is quieter than the target, below 1 when louder), and
\* returns an error instead of a value whenever the measured loudness is not
\* finite.
C17_GainFromLoudness ==
    (loudness # NoValue /\ loudness.ok) =>
        IF IsFinite(loudness.value)
        THEN LET measured == loudness.value.v
                 target   == normalizer.target_loudness
             IN  /\ gain = Some(db_to_linear(target - measured))
                 /\ measured < target => gain.value > ONE
                 /\ measured > target => gain.value < ONE
                 /\ "measure" = stages[Len(stages)] => norm_pc = "measured"
        ELSE /\ gain = NoValue
             /\ norm_pc = "failed"
             /\ norm_error # NoValue

\* C17 witness: an input measured louder than the target got a gain below 1.
C17_Witness ==
    /\ norm_pc = "measured"
    /\ loudness.value = Fin(-900)
    /\ normalizer.target_loudness = -1400
    /\ gain.value < ONE

\* The stages of normalize_file in the order of its body.
StageOrder == <<"prepare", "decode", "measure", "apply_gain", "write", "cleanup">>

\* The call has written its output file.
OutputWritten ==
    /\ stages # <<>>
    /\ create_output_path(input_path) \in DOMAIN files
    /\ files[create_output_path(input_path)] = "normalized"

\* C18: normalize_file runs its stages in one fixed order (prepare working
\* file, decode, measure loudness / compute gain, ceiling clamp, encode and
\* write output, cleanup), each at most once per call and never returning to
\* an earlier stage; the output file is written only after the gain and
\* clamp stages completed successfully.
C18_StagesInOrder ==
    /\ Len(stages) <= Len(StageOrder)
    /\ \A k \in 1..Len(stages) : stages[k] = StageOrder[k]
    /\ OutputWritten =>
           /\ gain # NoValue
           /\ final_gain # NoValue
           /\ Len(normalized_samples) = Len(decoded)
           /\ Len(stages) >= 5

\* C18 witness: a call on an .ogg input went through all six stages.
C18_Witness ==
    /\ norm_pc = "ok"
    /\ stages = StageOrder
    /\ is_opus_file(input_path)
    /\ OutputWritten
    /\ working_path \notin DOMAIN files

(***************************************************************************)
(* Claims about the reduction pass, checked under SpecLimiter.             *)
(***************************************************************************)

\* Limiter::process is running or has returned.
InProcess == lim_pc \in {"first_pass", "second_pass", "done"}

\* C19 as stated: the number of lookahead samples used by Limiter::process
\* equals round(lookahead_ms / 1000 * sample_rate) for every lookahead_ms and
\* sample_rate.
C19_LookaheadRounded ==
    InProcess =>
        lookahead_samples = RoundDiv(limiter.lookahead * sample_rate, 1000)

\* C19 as amended: the number of lookahead samples is the product
\* lookahead_ms * 0.001 * sample_rate truncated toward zero, not rounded: it
\* never exceeds the exact product lookahead_ms * sample_rate / 1000 and is
\* at most one sample below it.
C19_LookaheadTruncated ==
    InProcess =>
        /\ lookahead_samples * 1000 <= limiter.lookahead * sample_rate
        /\ limiter.lookahead * sample_rate - lookahead_samples * 1000 <= 1000

\* C19 witness: 1 ms at 1500 Hz is one and a half samples, and one is used.
C19_Witness ==
    /\ lim_pc = "done"
    /\ limiter.lookahead = 1
    /\ sample_rate = 1500
    /\ lookahead_samples = 1

\* The overshooting indices whose window covers index k.
Covering(k) ==
    {i \in 1..Len(samples) :
        /\ Abs(samples[i]) > threshold_linear
        /\ i <= k
        /\ k < i + lookahead_samples}

\* C20: after the reduction pass of Limiter::process, the scheduled reduction
\* at every index k equals the minimum of 1.0 and threshold_linear / |x[i]|
\* over all overshooting indices i with i <= k < i + lookahead_samples;
\* indices covered by no such window keep 1.0, and windows running past the
\* end of the buffer leave no other effect.
C20_ScheduledReduction ==
    lim_pc \in {"second_pass", "done"} =>
        /\ Len(gain_reduction) = Len(samples)
        /\ \A k \in 1..Len(samples) :
               /\ gain_reduction[k] <= ONE
               /\ Covering(k) = {} => gain_reduction[k] = ONE
               /\ \A i \in Covering(k) :
                      gain_reduction[k] <= FDiv(threshold_linear, Abs(samples[i]))
               /\ Covering(k) # {} =>
                      \E i \in Covering(k) :
                          gain_reduction[k]
                              = Min(ONE, FDiv(threshold_linear, Abs(samples[i])))

\* C20 witness: two windows overlap on the second index, and the deeper
\* reduction of the first overshoot stays scheduled there.
C20_Witness ==
    /\ lim_pc = "done"
    /\ Len(samples) >= 2
    /\ samples[1] = 1000
    /\ samples[2] = -800
    /\ Covering(2) = {1, 2}
    /\ gain_reduction[2] = FDiv(threshold_linear, 1000)
    /\ gain_reduction[2] < FDiv(threshold_linear, 800)

(***************************************************************************)
(* The clamp as a function, checked under SpecDsp.                         *)
(***************************************************************************)

\* C21: the ceiling clamp is exactly final_gain = min(g, peak_limit / p):
\* when g * p <= peak_limit the requested gain g is applied unchanged to
\* every sample, otherwise peak_limit / p is applied; the clamp never raises
\* the gain above g.
C21_ClampIsMinimum ==
    (dsp_pc = "returned" /\ dsp_call.fn = "apply_gain"
         /\ ~HasNaN(dsp_call.samples)) =>
        LET in         == Values(dsp_call.samples)
            g          == dsp_call.gain
            p          == SeqMax(in)
            peak_limit == db_to_linear(dsp_call.peak_ceiling)
            fg         == dsp_result.final_gain
        IN  /\ fg <= g
            /\ g * p <= peak_limit * ONE => fg = g
            /\ g * p > peak_limit * ONE => fg = FDiv(peak_limit, p)
            /\ \A k \in 1..Len(in) : dsp_result.out[k] = F32(FMul(in[k], fg))

\* C21 witness: a gain of 4 on a peak of 0.3 was cut to peak_limit / 0.3,
\* which is still above 1.
C21_Witness ==
    /\ dsp_pc = "returned"
    /\ dsp_call.fn = "apply_gain"
    /\ dsp_call.gain = 4 * ONE
    /\ dsp_call.samples = <<F32(300), F32(0)>>
    /\ dsp_result.final_gain < 4 * ONE
    /\ dsp_result.final_gain > ONE

(***************************************************************************)
(* Claims about the smoothing pass, checked under SpecLimiter.             *)
(***************************************************************************)

\* C22 as stated: in the smoothing pass of Limiter::process the applied
\* current_reduction is at every index greater than 0, at most 1.0, and never
\* greater than the scheduled reduction gain_reduction[i] for that index.
C22_AppliedUnderScheduled ==
    lim_pc \in {"second_pass", "done"} =>
        \A k \in 1..Len(applied) :
            /\ applied[k] > 0
            /\ applied[k] <= ONE
            /\ applied[k] <= gain_reduction[k]

\* C22 as amended: the applied current_reduction is at every index at least
\* 0, at most 1.0 and never greater than the scheduled reduction for that
\* index; it is greater than 0 wherever every scheduled reduction up to that
\* index is, that is unless threshold_linear / |x| has underflowed to 0.
C22_AppliedWithinScheduled ==
    lim_pc \in {"second_pass", "done"} =>
        \A k \in 1..Len(applied) :
            /\ applied[k] >= 0
            /\ applied[k] <= ONE
            /\ applied[k] <= gain_reduction[k]
            /\ (\A m \in 1..k : gain_reduction[m] > 0) => applied[k] > 0

\* C22 witness: the reduction snapped down to the scheduled one at an
\* overshoot and, later, is released but still below the scheduled one.
C22_Witness ==
    /\ lim_pc = "done"
    /\ \E k \in 1..Len(applied) :
           /\ applied[k] = gain_reduction[k]
           /\ applied[k] < ONE
           /\ \E m \in (k + 1)..Len(applied) :
                  /\ applied[m] < gain_reduction[m]
                  /\ applied[m] > applied[k]

\* C23: if no sample of the input has a magnitude above the threshold,
\* Limiter::process returns a buffer equal to its input sample for sample.
C23_IdentityUnderThreshold ==
    (lim_pc = "done"
         /\ \A k \in 1..Len(samples) :
                Abs(samples[k]) <= db_to_linear(limiter.threshold)) =>
        output = samples

\* C23 witness: a buffer with a quiet sample and silence came back unchanged
\* from a limiter with a lookahead and a release of at least one sample.
C23_Witness ==
    /\ lim_pc = "done"
    /\ samples = <<300, 0, 300>>
    /\ output = samples
    /\ lookahead_samples >= 1
    /\ release_samples >= 1

\* C24: for the same buffer, gain and peak ceiling, apply_gain of audio.rs
\* returns the same output buffer as apply_gain of audio_normalizer.rs.
C24_ClampRevisionsAgree ==
    (/\ dsp_pc = "returned"
     /\ dsp_call.fn = "audio::apply_gain"
     /\ ~HasNaN(dsp_call.samples)) =>
        dsp_result.out =
            Lift(apply_gain(Values(dsp_call.samples), dsp_call.gain,
                            dsp_call.peak_ceiling))

\* The number of frames of an interleaved buffer, a last incomplete frame
\* counted.
Frames(pcm, channels) == (Len(pcm) + channels - 1) \div channels

\* C30: split_channels splits an interleaved buffer into left and right with
\* one entry per frame: for every channel count left and right have equal
\* length; for 2 channels left[k] = samples[2k] and right[k] = samples[2k+1]
\* (0-based), an unpaired last sample duplicated into right; for mono both
\* equal the input.
C30_SplitOnePerFrame ==
    (dsp_pc = "returned" /\ dsp_call.fn = "split_channels") =>
        LET in == dsp_call.samples
            ch == dsp_call.channels
            left == dsp_result.left
            right == dsp_result.right
        IN  /\ Len(left) = Len(right)
            /\ Len(left) = Frames(in, ch)
            /\ ch = 2 =>
                   \A k \in 1..Len(left) :
                       /\ left[k] = in[2 * k - 1]
                       /\ right[k] = IF 2 * k <= Len(in) THEN in[2 * k]
                                     ELSE in[2 * k - 1]
            /\ ch = 1 => left = in /\ right = in

\* The call of normalize_file has returned, with Ok or with an error.
NormReturned == input_path # NoValue /\ norm_pc \in {"ok", "failed"}

\* C27: normalize_file on an input X.ogg creates or changes no file other
\* than its output X-normalized.mp3: a sibling file X.mp3 that existed before
\* the call exists with unchanged content after the call, whether the call
\* succeeds or fails.
C27_OnlyOutputIsTouched ==
    (NormReturned /\ is_opus_file(input_path)) =>
        /\ \A p \in (DOMAIN files \cup DOMAIN files0) \ {create_output_path(input_path)} :
               /\ p \in DOMAIN files0
               /\ p \in DOMAIN files
               /\ files[p] = files0[p]
        /\ with_extension(input_path, "mp3") \in DOMAIN files0 =>
               /\ with_extension(input_path, "mp3") \in DOMAIN files
               /\ files[with_extension(input_path, "mp3")] =
                      files0[with_extension(input_path, "mp3")]

\* C28: for an .ogg input the working file produced by the conversion is
\* removed when normalize_file succeeds and is left on disk when a later
\* step (decode, loudness measurement, gain application, encoding) fails;
\* for any other input the input file itself is the working file and is
\* never removed.
C28_WorkingFileLifecycle ==
    (input_path # NoValue /\ working_path # NoValue) =>
        IF is_opus_file(input_path)
        THEN /\ working_path = with_extension(input_path, "mp3")
             /\ norm_pc = "ok" => working_path \notin DOMAIN files
             /\ (/\ norm_pc = "failed"
                 /\ stages[Len(stages)] \in {"decode", "measure", "apply_gain", "write"}) =>
                    /\ working_path \in DOMAIN files
                    /\ files[working_path] = "converted"
        ELSE /\ working_path = input_path
             /\ input_path \in DOMAIN files0 =>
                    /\ input_path \in DOMAIN files
                    /\ files[input_path] = files0[input_path]

\* C28 witness: a call on an .ogg input succeeded, its output is written and
\* its working file is gone.
C28_Witness ==
    /\ norm_pc = "ok"
    /\ is_opus_file(input_path)
    /\ working_path \notin DOMAIN files
    /\ OutputWritten

(***************************************************************************)
(* Claims about process_and_upload_sound on a guild whose sounds may be    *)
(* removed meanwhile, checked under SpecDiscordEnv.                        *)
(***************************************************************************)

\* The positions of the requests of run r, and of its create requests.
RequestsOf(r) == {k \in 1..Len(requests) : requests[k].run = r}

CreatesOf(r) == {k \in RequestsOf(r) : requests[k].op = "create"}

\* Position k holds the latest request of run r.
LatestOf(r, k) == k \in RequestsOf(r) /\ \A m \in RequestsOf(r) : m <= k

\* C25: when process_and_upload_sound returns Ok for a name that exists in
\* the guild, exactly one create and then one delete of the original sound
\* id have been issued, and the store holds the new normalized asset and no
\* longer the original; when the name does not exist, exactly one create and
\* no delete are issued.
C25_OneCreateThenDelete ==
    \A r \in {1} :
        \* at most one create for each sound the run has taken up
        /\ Cardinality(CreatesOf(r)) <= Cardinality(d_attempted[r])
        \* a delete directly follows the create of the same item, and it is
        \* the delete of the sound found by name, not of the new one
        /\ \A k \in RequestsOf(r) :
               requests[k].op = "delete" =>
                   \E j \in 1..(k - 1) :
                       /\ LastRequestBefore(k, j)
                       /\ requests[j].op = "create"
                       /\ requests[j].ok
                       /\ requests[j].name = requests[k].name
                       /\ requests[j].id # requests[k].id
                       /\ (requests[k].ok /\ LatestOf(r, k)) =>
                              /\ HasId(store, requests[j].id)
                              /\ ~HasId(store, requests[k].id)
                              /\ \E n \in 1..Len(store) :
                                     /\ store[n].id = requests[j].id
                                     /\ store[n].name = requests[k].name
                                     /\ store[n].normalized
        \* the delete is pending exactly after a successful create for a
        \* sound that was found
        /\ d_pc[r] = "delete" =>
               /\ d_existing[r] # NoValue
               /\ \E k \in CreatesOf(r) :
                      /\ LatestOf(r, k)
                      /\ requests[k].ok
                      /\ requests[k].name = d_existing[r].name
        /\ \A k \in CreatesOf(r) :
               (LatestOf(r, k) /\ requests[k].ok) =>
                   /\ HasId(store, requests[k].id)
                   /\ d_existing[r] = NoValue => d_pc[r] # "delete"
                   /\ d_existing[r] # NoValue =>
                          d_pc[r] = "delete" \/ d_pc[r] \in {"list", "create"}

\* C25 witness: the run replaced one sound (create, then delete of the
\* original) and, for a sound that was gone from the guild, issued a create
\* alone.
C25_Witness ==
    /\ d_pc[1] = "done"
    /\ d_existing[1] = NoValue
    /\ Len(requests) = 3
    /\ requests[1].op = "create" /\ requests[1].ok
    /\ requests[2].op = "delete" /\ requests[2].ok
    /\ requests[3].op = "create" /\ requests[3].ok
    /\ requests[3].name # requests[1].name
    /\ Len(store) = 2

(***************************************************************************)
(* Claims about two interleaved runs, checked under SpecDiscordPair.       *)
(***************************************************************************)

\* The assets of the store that carry the name.
AssetsNamed(sounds, name) == {k \in 1..Len(sounds) : sounds[k].name = name}

\* The API refused nothing it could have done: every create succeeded, and a
\* delete failed only for a sound that had been deleted before.
NoRefusal ==
    \A k \in 1..Len(requests) :
        ~requests[k].ok =>
            /\ requests[k].op = "delete"
            /\ \E j \in 1..(k - 1) :
                   /\ requests[j].op = "delete"
                   /\ requests[j].ok
                   /\ requests[j].id = requests[k].id

\* C26: two interleaved normalize runs on the same guild do not interfere:
\* once both have finished, every sound name that existed at the start has
\* exactly one asset in the remote store (a guild that started with one
\* asset for each name, and an API that refuses nothing).
C26_RunsDoNotInterfere ==
    (/\ \A r \in RunIds : d_pc[r] = "done"
     /\ \A k \in 1..Len(store0) : Cardinality(AssetsNamed(store0, store0[k].name)) = 1
     /\ NoRefusal) =>
        \A k \in 1..Len(store0) :
            Cardinality(AssetsNamed(store, store0[k].name)) = 1

(***************************************************************************)
(* Claims about process_directory, checked under SpecDirectory.            *)
(***************************************************************************)

\* C29: process_directory normalizes only files that were in the directory
\* when it was invoked: a "<stem>-normalized.mp3" it writes during the run is
\* never itself taken as an input in the same run, so the run ends after at
\* most one normalization for each original mp3, wav or ogg file.
C29_OnlyOriginalsNormalized ==
    /\ \A k \in 1..Len(dir_processed) : dir_processed[k] \in dir_files0
    /\ Len(dir_processed) <= Cardinality({p \in dir_files0 : IsAudio(p)})

====
